---- MODULE Spec2Model ----
(***************************************************************************)
(* Model of epitran-service/app.py: three POST handlers (stress-tail,      *)
(* transliterate, detect_rhyme) over a startup map of Epitran instances.   *)
(*                                                                         *)
(* Python strings are sequences of one-character strings.  The primary     *)
(* stress marker U+02C8 is written "'" here.                               *)
(***************************************************************************)
EXTENDS Integers, Sequences, FiniteSets, TLC

\* ------------------------------------------------------------------ bounds
\* Longest IPA transcription fed to the stress-tail extractors on their own.
MaxIpaLen == 5
\* Number of requests of a run; all of them may be in flight together.
NumRequests == 2

\* ------------------------------------------------------- string primitives
Marker == "'"
Space == " "

\* the characters an IPA transcription is built from in the extractor runs
IpaChars == {"a", "b", Marker}

\* all sequences over S of length at most n
SeqsUpTo(S, n) == UNION {[1..k -> S] : k \in 0..n}

IpaStrings == SeqsUpTo(IpaChars, MaxIpaLen)

\* c in s  (Python `in` for a one-character needle)
Contains(s, c) == \E i \in 1..Len(s) : s[i] = c

\* s.split(c): the segments between the occurrences of c, in order
RECURSIVE Split(_, _)
Split(s, c) ==
    IF ~Contains(s, c) THEN <<s>>
    ELSE LET i == CHOOSE k \in 1..Len(s) :
                      s[k] = c /\ \A j \in 1..(k - 1) : s[j] # c
         IN  <<SubSeq(s, 1, i - 1)>> \o Split(SubSeq(s, i + 1, Len(s)), c)

\* xs[-1]
Last(xs) == xs[Len(xs)]

\* s[-n:]
Slice(s, n) == IF Len(s) <= n THEN s ELSE SubSeq(s, Len(s) - n + 1, Len(s))

\* str.lower() on one character
LowerChar(c) ==
    CASE c = "A" -> "a"
      [] c = "B" -> "b"
      [] c = "E" -> "e"
      [] c = "N" -> "n"
      [] c = "I" -> "i"
      [] c = "T" -> "t"
      [] OTHER -> c

\* str.lower()
lower(s) == [i \in 1..Len(s) |-> LowerChar(s[i])]

\* mutant of strip: only trailing whitespace is dropped (rstrip)
RECURSIVE rstrip(_)
rstrip(s) ==
    IF s = <<>> THEN s
    ELSE IF s[Len(s)] = Space THEN rstrip(SubSeq(s, 1, Len(s) - 1))
    ELSE s

\* str.strip(): drop leading and trailing whitespace
RECURSIVE strip(_)
strip(s) ==
    IF s = <<>> THEN s
    ELSE IF Head(s) = Space THEN strip(Tail(s))
    ELSE IF s[Len(s)] = Space THEN strip(SubSeq(s, 1, Len(s) - 1))
    ELSE s

\* mutant of the extractors: one character too few is kept (ipa[-2:])
StressTailShort(ipa) ==
    IF Contains(ipa, Marker) THEN Last(Split(ipa, Marker))
    ELSE IF Len(ipa) > 3 THEN Slice(ipa, 2)
    ELSE ipa

\* mutant of the extractors: the length rule is applied to the segment too
StressTailClip(ipa) ==
    IF Contains(ipa, Marker) THEN Slice(Last(Split(ipa, Marker)), 3)
    ELSE IF Len(ipa) > 3 THEN Slice(ipa, 3)
    ELSE ipa

\* mutant of the extractors: the length rule is 2, not 3
StressTailTwo(ipa) ==
    IF Contains(ipa, Marker) THEN Last(Split(ipa, Marker))
    ELSE IF Len(ipa) > 2 THEN Slice(ipa, 2)
    ELSE ipa

\* app.py 41-45: the stress tail computed inline by the /stress-tail handler
StressTailInline(ipa) ==
    IF Contains(ipa, Marker) THEN Last(Split(ipa, Marker))
    ELSE IF Len(ipa) > 3 THEN Slice(ipa, 3)
    ELSE ipa

\* app.py 71-76: the nested helper of detect_rhyme
get_stress_tail(ipa) ==
    IF Contains(ipa, Marker) THEN Last(Split(ipa, Marker))
    ELSE IF Len(ipa) > 3 THEN Slice(ipa, 3)
    ELSE ipa

\* --------------------------------------------------------------- the inputs
EN == <<"e", "n">>
IT == <<"i", "t">>
ES == <<"e", "s">>
FR == <<"f", "r">>
DE == <<"d", "e">>

\* request words: surrounding whitespace and upper case, and a second word
RawWords == {<<Space, "A">>, <<"b">>}

\* request language codes: a supported code in upper case and an unknown code
RawLanguages == {<<"I", "t">>, <<"z", "z">>}

\* JSON bodies of /stress-tail and /transliterate; language may be omitted
WordBodies ==
    [word : RawWords] \cup [word : RawWords, language : RawLanguages]

\* JSON bodies of /detect_rhyme; language may be omitted
RhymeBodies ==
    [word1 : RawWords, word2 : RawWords]
        \cup [word1 : RawWords, word2 : RawWords, language : RawLanguages]

\* what an Epitran instance may return for a word it has not seen yet:
\* a marked transcription, an unmarked one longer than 3, a short one
ProviderRange ==
    { <<"b", Marker, "a", "b">>, <<"a", "b", "a", "b">>, <<"a", "b">> }

Requests == 1..NumRequests

\* ------------------------------------------------------------------- state
\* Handlers run on worker threads, so requests interleave.  epi_instances is
\* only read and everything else a handler touches is local to it, so a
\* handler is split at its Provider calls: each action below ends with one.
VARIABLES
    epi_instances,     \* language code -> Epitran instance (its locale)
    transliterations,  \* <<instance, word>> -> what the instance returned
    pc,                \* per request: where its handler stands
    req,               \* per request: the path and JSON body received
    frame,             \* per request: the handler's local variables
    resp,              \* per request: the JSON body returned
    calls,             \* per request: the Provider calls made, in order
    probe              \* the stand-alone run of the stress-tail extractors

vars == <<epi_instances, transliterations, pc, req, frame, resp, calls, probe>>

None == [none |-> TRUE]

\* app.py 17-23
EpiInstances ==
    (EN :> "eng-Latn") @@ (IT :> "ita-Latn") @@ (ES :> "spa-Latn")
        @@ (FR :> "fra-Latn") @@ (DE :> "deu-Latn")

\* mutant of WordRequest: the default language is 'it'
WordRequestDefaultIt(body) ==
    [word |-> body.word,
     language |-> IF "language" \in DOMAIN body THEN body.language ELSE IT]

\* app.py 25-27: pydantic fills the default language
WordRequest(body) ==
    [word |-> body.word,
     language |-> IF "language" \in DOMAIN body THEN body.language ELSE EN]

\* app.py 29-32
RhymeRequest(body) ==
    [word1 |-> body.word1, word2 |-> body.word2,
     language |-> IF "language" \in DOMAIN body THEN body.language ELSE EN]

\* mutant of Language: an unknown code falls back to the default instance
LanguageOrDefault(r) ==
    IF lower(r.language) \in {EN, IT, ES, FR, DE} THEN lower(r.language) ELSE EN

\* app.py 37, 57, 65: language = req.language.lower()
Language(r) == lower(r.language)

\* app.py 39, 59, 67
LanguageNotSupported == [error |-> "Language not supported"]

\* epi_instances[language].transliterate(word) returning ipa: an instance
\* is deterministic, so a word it has seen gets the same transcription
Transliterates(instance, word, ipa) ==
    /\ IF <<instance, word>> \in DOMAIN transliterations
       THEN ipa = transliterations[<<instance, word>>]
       ELSE ipa \in ProviderRange
    /\ transliterations' = (<<instance, word>> :> ipa) @@ transliterations

\* mutant of Rhyme: one tail ends with the other
RhymeSuffix(tail1, tail2) == Slice(tail2, Len(tail1)) = tail1

\* app.py 79
Rhyme(tail1, tail2) == tail1 = tail2

ProbeIdle == [stage |-> "idle"]

Init ==
    /\ epi_instances = EpiInstances
    /\ transliterations = <<>>
    /\ pc = [t \in Requests |-> "idle"]
    /\ req = [t \in Requests |-> None]
    /\ frame = [t \in Requests |-> None]
    /\ resp = [t \in Requests |-> None]
    /\ calls = [t \in Requests |-> <<>>]
    /\ probe = ProbeIdle

\* --------------------------------------------------------- POST /stress-tail
\* app.py 34-52: the whole handler; it makes one Provider call
StressTail(t, body) ==
    /\ pc[t] = "idle"
    /\ req' = [req EXCEPT ![t] = [path |-> "/stress-tail", body |-> body]]
    /\ LET r == WordRequest(body)
           word == lower(strip(r.word))
           language == Language(r)
       IN  IF language \notin DOMAIN epi_instances
           THEN /\ resp' = [resp EXCEPT ![t] = LanguageNotSupported]
                /\ UNCHANGED <<transliterations, calls>>
           ELSE \E ipa \in ProviderRange :
                  /\ Transliterates(epi_instances[language], word, ipa)
                  /\ calls' = [calls EXCEPT ![t] =
                                  Append(@, <<epi_instances[language], word>>)]
                  /\ resp' = [resp EXCEPT ![t] =
                                 [word |-> word, language |-> language,
                                  ipa |-> ipa,
                                  stress_tail |-> StressTailInline(ipa),
                                  success |-> TRUE]]
    /\ pc' = [pc EXCEPT ![t] = "done"]
    /\ UNCHANGED <<epi_instances, frame, probe>>

\* -------------------------------------------------------- POST /transliterate
\* mutant of Transliterate: an unknown language gets an instance created and
\* stored in the shared map
TransliterateRegister(t, body) ==
    /\ pc[t] = "idle"
    /\ req' = [req EXCEPT ![t] = [path |-> "/transliterate", body |-> body]]
    /\ LET r == WordRequest(body)
           word == lower(strip(r.word))
           language == Language(r)
           instance == IF language \in DOMAIN epi_instances
                       THEN epi_instances[language] ELSE "new"
       IN  /\ epi_instances' = (language :> instance) @@ epi_instances
           /\ \E ipa \in ProviderRange :
                  /\ Transliterates(instance, word, ipa)
                  /\ calls' = [calls EXCEPT ![t] = Append(@, <<instance, word>>)]
                  /\ resp' = [resp EXCEPT ![t] =
                                 [word |-> word, language |-> language,
                                  ipa |-> ipa]]
    /\ pc' = [pc EXCEPT ![t] = "done"]
    /\ UNCHANGED <<frame, probe>>

\* app.py 54-61: the whole handler; it makes one Provider call
Transliterate(t, body) ==
    /\ pc[t] = "idle"
    /\ req' = [req EXCEPT ![t] = [path |-> "/transliterate", body |-> body]]
    /\ LET r == WordRequest(body)
           word == lower(strip(r.word))
           language == Language(r)
       IN  IF language \notin DOMAIN epi_instances
           THEN /\ resp' = [resp EXCEPT ![t] = LanguageNotSupported]
                /\ UNCHANGED <<transliterations, calls>>
           ELSE \E ipa \in ProviderRange :
                  /\ Transliterates(epi_instances[language], word, ipa)
                  /\ calls' = [calls EXCEPT ![t] =
                                  Append(@, <<epi_instances[language], word>>)]
                  /\ resp' = [resp EXCEPT ![t] =
                                 [word |-> word, language |-> language,
                                  ipa |-> ipa]]
    /\ pc' = [pc EXCEPT ![t] = "done"]
    /\ UNCHANGED <<epi_instances, frame, probe>>

\* --------------------------------------------------------- POST /detect_rhyme
\* app.py 63-68: entry, the language check and the first Provider call
DetectRhymeIpa1(t, body) ==
    /\ pc[t] = "idle"
    /\ req' = [req EXCEPT ![t] = [path |-> "/detect_rhyme", body |-> body]]
    /\ LET r == RhymeRequest(body)
           language == Language(r)
       IN  IF language \notin DOMAIN epi_instances
           THEN /\ resp' = [resp EXCEPT ![t] = LanguageNotSupported]
                /\ pc' = [pc EXCEPT ![t] = "done"]
                /\ UNCHANGED <<transliterations, calls, frame>>
           ELSE \E ipa1 \in ProviderRange :
                  /\ Transliterates(epi_instances[language],
                                    lower(strip(r.word1)), ipa1)
                  /\ calls' = [calls EXCEPT ![t] =
                                  Append(@, <<epi_instances[language],
                                              lower(strip(r.word1))>>)]
                  /\ frame' = [frame EXCEPT ![t] =
                                  [req |-> r, language |-> language,
                                   ipa1 |-> ipa1]]
                  /\ pc' = [pc EXCEPT ![t] = "detect_rhyme_ipa2"]
                  /\ UNCHANGED resp
    /\ UNCHANGED <<epi_instances, probe>>

\* app.py 69-89: the second Provider call, the tails and the response
DetectRhymeReturn(t) ==
    /\ pc[t] = "detect_rhyme_ipa2"
    /\ LET f == frame[t]
           instance == epi_instances[f.language]
           word == lower(strip(f.req.word2))
       IN  \E ipa2 \in ProviderRange :
             /\ Transliterates(instance, word, ipa2)
             /\ calls' = [calls EXCEPT ![t] = Append(@, <<instance, word>>)]
             /\ LET tail1 == get_stress_tail(f.ipa1)
                    tail2 == get_stress_tail(ipa2)
                IN  resp' = [resp EXCEPT ![t] =
                                [word1 |-> f.req.word1, word2 |-> f.req.word2,
                                 language |-> f.language,
                                 ipa1 |-> f.ipa1, ipa2 |-> ipa2,
                                 stress_tail1 |-> tail1, stress_tail2 |-> tail2,
                                 rhyme |-> Rhyme(tail1, tail2)]]
    /\ frame' = [frame EXCEPT ![t] = None]
    /\ pc' = [pc EXCEPT ![t] = "done"]
    /\ UNCHANGED <<epi_instances, req, probe>>

Next ==
    \E t \in Requests :
        \/ \E body \in WordBodies : StressTail(t, body)
        \/ \E body \in WordBodies : Transliterate(t, body)
        \/ \E body \in RhymeBodies : DetectRhymeIpa1(t, body)
        \/ DetectRhymeReturn(t)

Spec == Init /\ [][Next]_vars

\* ----------------------------------------- the extractors run on their own
InitTail ==
    /\ epi_instances = EpiInstances
    /\ transliterations = <<>>
    /\ pc = [t \in Requests |-> "idle"]
    /\ req = [t \in Requests |-> None]
    /\ frame = [t \in Requests |-> None]
    /\ resp = [t \in Requests |-> None]
    /\ calls = [t \in Requests |-> <<>>]
    /\ \E ipa \in IpaStrings : probe = [stage |-> "ipa", ipa |-> ipa]

\* both copies applied to the transcription
ProbeExtract ==
    /\ probe.stage = "ipa"
    /\ probe' = [stage |-> "tail", ipa |-> probe.ipa,
                 inline |-> StressTailInline(probe.ipa),
                 nested |-> get_stress_tail(probe.ipa)]
    /\ UNCHANGED <<epi_instances, transliterations, pc, req, frame, resp, calls>>

\* both copies applied again, to the tail they returned
ProbeReextract ==
    /\ probe.stage = "tail"
    /\ probe' = [stage |-> "again", ipa |-> probe.ipa,
                 inline |-> probe.inline, nested |-> probe.nested,
                 inline2 |-> StressTailInline(probe.inline),
                 nested2 |-> get_stress_tail(probe.nested)]
    /\ UNCHANGED <<epi_instances, transliterations, pc, req, frame, resp, calls>>

NextTail == ProbeExtract \/ ProbeReextract

SpecTail == InitTail /\ [][NextTail]_vars
\* ------------------------------------------------ vocabulary of the claims
\* the closed set of supported codes and the instance each is bound to
SupportedCodes == {EN, IT, ES, FR, DE}

BoundInstance(code) ==
    CASE code = EN -> "eng-Latn"
      [] code = IT -> "ita-Latn"
      [] code = ES -> "spa-Latn"
      [] code = FR -> "fra-Latn"
      [] code = DE -> "deu-Latn"

\* s with every character lower-cased
LowerCased(s) == [i \in DOMAIN s |-> LowerChar(s[i])]

\* s without its leading and trailing whitespace
Trimmed(s) ==
    LET solid == {i \in 1..Len(s) : s[i] # Space}
    IN  IF solid = {} THEN <<>>
        ELSE SubSeq(s, CHOOSE i \in solid : \A j \in solid : i <= j,
                       CHOOSE i \in solid : \A j \in solid : i >= j)

Normalised(w) == LowerCased(Trimmed(w))

\* the substring strictly after the last marker of a marked transcription
AfterLastMarker(ipa) ==
    LET marks == {i \in 1..Len(ipa) : ipa[i] = Marker}
        last == CHOOSE i \in marks : \A j \in marks : i >= j
    IN  [k \in 1..(Len(ipa) - last) |-> ipa[last + k]]

\* the suffix of length min(3, length)
Suffix3(ipa) ==
    LET n == IF Len(ipa) < 3 THEN Len(ipa) ELSE 3
    IN  [k \in 1..n |-> ipa[Len(ipa) - n + k]]

Done(t) == pc[t] = "done"
Succeeded(t) == Done(t) /\ "error" \notin DOMAIN resp[t]
Path(t) == req[t].path
Body(t) == req[t].body

\* the language code of a request: as sent, "en" when the field is omitted
RequestLanguage(t) ==
    IF "language" \in DOMAIN Body(t) THEN Body(t).language ELSE EN

\* what the Provider returned for a word under a supported code
ProviderOutput(code, w) == transliterations[<<BoundInstance(code), Normalised(w)>>]

Extracted == probe.stage \in {"tail", "again"}

\* ------------------------------------------------------------------ claims
\* C1: a request whose lower-cased language code is not one of en, it, es,
\* fr, de is answered, on each of the three paths, with exactly
\* {error: "Language not supported"} and without any Provider call.
C1_UnsupportedLanguage ==
    \A t \in Requests :
        (pc[t] # "idle" /\ LowerCased(RequestLanguage(t)) \notin SupportedCodes)
            => /\ Done(t)
               /\ resp[t] = [error |-> "Language not supported"]
               /\ calls[t] = <<>>

C1_Witness ==
    \E t, u \in Requests :
        /\ Done(t) /\ Path(t) = "/detect_rhyme"
        /\ Done(u) /\ Path(u) = "/stress-tail"
        /\ RequestLanguage(t) = <<"z", "z">>
        /\ RequestLanguage(u) = <<"z", "z">>

\* C2: for a transcription with at least one marker, both extractors return
\* the substring strictly after the last marker; it holds no marker, it is
\* empty when the marker is the last character, and its length is not cut.
C2_AfterLastMarker ==
    (Extracted /\ Contains(probe.ipa, Marker))
        => /\ probe.inline = AfterLastMarker(probe.ipa)
           /\ probe.nested = AfterLastMarker(probe.ipa)
           /\ ~Contains(probe.inline, Marker)
           /\ probe.ipa[Len(probe.ipa)] = Marker => probe.inline = <<>>

C2_Witness ==
    /\ probe.stage = "tail"
    /\ Contains(probe.ipa, Marker)
    /\ Len(probe.inline) > 3

\* C3: for a transcription without a marker, both extractors return its
\* suffix of length min(3, length): the last 3 characters when it is longer
\* than 3, the whole transcription otherwise.
C3_LastThree ==
    (Extracted /\ ~Contains(probe.ipa, Marker))
        => /\ probe.inline = Suffix3(probe.ipa)
           /\ probe.nested = Suffix3(probe.ipa)
           /\ Len(probe.ipa) <= 3 => probe.inline = probe.ipa

C3_Witness ==
    /\ probe.stage = "tail"
    /\ ~Contains(probe.ipa, Marker)
    /\ Len(probe.ipa) > 3
    /\ probe.inline # SubSeq(probe.ipa, 1, 3)

\* C4 as stated: for a transcription with a marker, extracting again from
\* the extracted tail returns the tail unchanged.
C4_Idempotent ==
    (probe.stage = "again" /\ Contains(probe.ipa, Marker))
        => /\ probe.inline2 = probe.inline
           /\ probe.nested2 = probe.nested

\* C4 amended: for a transcription with a marker, extracting again returns
\* the tail unchanged when the tail has at most 3 characters, and the last
\* 3 characters of the tail when it is longer.
C4_IdempotentShortTail ==
    (probe.stage = "again" /\ Contains(probe.ipa, Marker))
        => /\ Len(probe.inline) <= 3
                => probe.inline2 = probe.inline /\ probe.nested2 = probe.nested
           /\ Len(probe.inline) > 3
                => /\ probe.inline2 = Suffix3(probe.inline)
                   /\ probe.nested2 = Suffix3(probe.nested)

C4_Witness ==
    /\ probe.stage = "again"
    /\ Contains(probe.ipa, Marker)
    /\ Len(probe.inline) = 3
    /\ probe.inline2 = probe.inline

\* C5: two successful /detect_rhyme requests with the same language and the
\* two words swapped return the same rhyme value, with ipa1/ipa2 and
\* stress_tail1/stress_tail2 swapped.
C5_Symmetric ==
    \A t, u \in Requests :
        ( /\ Succeeded(t) /\ Path(t) = "/detect_rhyme"
          /\ Succeeded(u) /\ Path(u) = "/detect_rhyme"
          /\ RequestLanguage(t) = RequestLanguage(u)
          /\ Body(t).word1 = Body(u).word2
          /\ Body(t).word2 = Body(u).word1 )
            => /\ resp[t].rhyme = resp[u].rhyme
               /\ resp[t].ipa1 = resp[u].ipa2
               /\ resp[t].ipa2 = resp[u].ipa1
               /\ resp[t].stress_tail1 = resp[u].stress_tail2
               /\ resp[t].stress_tail2 = resp[u].stress_tail1

C5_Witness ==
    \E t, u \in Requests :
        /\ t # u
        /\ Succeeded(t) /\ Path(t) = "/detect_rhyme"
        /\ Succeeded(u) /\ Path(u) = "/detect_rhyme"
        /\ RequestLanguage(t) = RequestLanguage(u)
        /\ Body(t).word1 = Body(u).word2
        /\ Body(t).word2 = Body(u).word1
        /\ Body(t).word1 # Body(t).word2
        /\ resp[t].stress_tail1 # resp[t].stress_tail2

\* C6: a successful /detect_rhyme request with word1 = word2 returns
\* rhyme = true, and rhyme is true exactly when stress_tail1 = stress_tail2.
C6_Reflexive ==
    \A t \in Requests :
        (Succeeded(t) /\ Path(t) = "/detect_rhyme")
            => /\ Body(t).word1 = Body(t).word2 => resp[t].rhyme = TRUE
               /\ resp[t].rhyme = (resp[t].stress_tail1 = resp[t].stress_tail2)

C6_Witness ==
    \E t, u \in Requests :
        /\ Succeeded(t) /\ Path(t) = "/detect_rhyme"
        /\ Body(t).word1 = Body(t).word2
        /\ resp[t].rhyme = TRUE
        /\ Succeeded(u) /\ Path(u) = "/detect_rhyme"
        /\ resp[u].ipa1 # resp[u].ipa2
        /\ resp[u].rhyme = TRUE

\* C7: a successful /detect_rhyme response echoes word1 and word2 exactly
\* as received while ipa1 and ipa2 are the Provider's output for the
\* trimmed, lower-cased words; the word of a successful /transliterate or
\* /stress-tail response is the trimmed, lower-cased request word.
C7_EchoedWords ==
    \A t \in Requests :
        Succeeded(t) =>
            IF Path(t) = "/detect_rhyme"
            THEN /\ resp[t].word1 = Body(t).word1
                 /\ resp[t].word2 = Body(t).word2
                 /\ calls[t] = << <<BoundInstance(resp[t].language),
                                    Normalised(Body(t).word1)>>,
                                  <<BoundInstance(resp[t].language),
                                    Normalised(Body(t).word2)>> >>
                 /\ resp[t].ipa1 = ProviderOutput(resp[t].language, Body(t).word1)
                 /\ resp[t].ipa2 = ProviderOutput(resp[t].language, Body(t).word2)
            ELSE resp[t].word = Normalised(Body(t).word)

C7_Witness ==
    \E t, u \in Requests :
        /\ Succeeded(t) /\ Path(t) = "/detect_rhyme"
        /\ Body(t).word1 = <<Space, "A">>
        /\ resp[t].word1 = <<Space, "A">>
        /\ Succeeded(u) /\ Path(u) \in {"/stress-tail", "/transliterate"}
        /\ Body(u).word = <<Space, "A">>
        /\ resp[u].word = <<"a">>

\* what the handler of request t returns when it runs alone: a function of
\* the request's own fields and of the Provider's output for them
AloneResponse(t) ==
    LET code == LowerCased(RequestLanguage(t))
    IN  IF code \notin SupportedCodes THEN [error |-> "Language not supported"]
        ELSE CASE Path(t) = "/transliterate" ->
                    [word |-> Normalised(Body(t).word), language |-> code,
                     ipa |-> ProviderOutput(code, Body(t).word)]
               [] Path(t) = "/stress-tail" ->
                    LET ipa == ProviderOutput(code, Body(t).word)
                    IN  [word |-> Normalised(Body(t).word), language |-> code,
                         ipa |-> ipa,
                         stress_tail |-> IF Contains(ipa, Marker)
                                         THEN AfterLastMarker(ipa)
                                         ELSE Suffix3(ipa),
                         success |-> TRUE]
               [] Path(t) = "/detect_rhyme" ->
                    LET ipa1 == ProviderOutput(code, Body(t).word1)
                        ipa2 == ProviderOutput(code, Body(t).word2)
                        tail1 == IF Contains(ipa1, Marker)
                                 THEN AfterLastMarker(ipa1) ELSE Suffix3(ipa1)
                        tail2 == IF Contains(ipa2, Marker)
                                 THEN AfterLastMarker(ipa2) ELSE Suffix3(ipa2)
                    IN  [word1 |-> Body(t).word1, word2 |-> Body(t).word2,
                         language |-> code, ipa1 |-> ipa1, ipa2 |-> ipa2,
                         stress_tail1 |-> tail1, stress_tail2 |-> tail2,
                         rhyme |-> (tail1 = tail2)]

\* C8: under every interleaving of the requests the startup map keeps its
\* five keys and instances, and each response is the one the request gets
\* when handled alone.
C8_Isolation ==
    /\ DOMAIN epi_instances = SupportedCodes
    /\ \A code \in SupportedCodes : epi_instances[code] = BoundInstance(code)
    /\ \A t \in Requests : Done(t) => resp[t] = AloneResponse(t)

C8_Witness ==
    \E t, u \in Requests :
        /\ pc[t] = "detect_rhyme_ipa2"
        /\ Succeeded(u) /\ Path(u) = "/stress-tail"
        /\ calls[u] = <<calls[t][1]>>

\* C9: in every successful response the language is one of the five codes,
\* equals the lower-cased code of the request ("en" when it was omitted),
\* and every Provider call went to the instance bound to that code.
C9_LanguageNotSubstituted ==
    \A t \in Requests :
        Succeeded(t) =>
            /\ resp[t].language \in SupportedCodes
            /\ resp[t].language = LowerCased(RequestLanguage(t))
            /\ calls[t] # <<>>
            /\ \A i \in 1..Len(calls[t]) :
                   calls[t][i][1] = BoundInstance(resp[t].language)

C9_Witness ==
    \E t, u \in Requests :
        /\ Succeeded(t) /\ RequestLanguage(t) = <<"I", "t">>
        /\ resp[t].language = IT
        /\ Succeeded(u) /\ "language" \notin DOMAIN Body(u)
        /\ resp[u].language = EN

\* C10: for the same word and language, /stress-tail returns the ipa and
\* stress_tail that /detect_rhyme returns as ipa1 and stress_tail1, and the
\* ipa that /transliterate returns.
C10_CopiesAgree ==
    \A t, u \in Requests :
        ( /\ Succeeded(t) /\ Path(t) = "/stress-tail"
          /\ Succeeded(u)
          /\ RequestLanguage(t) = RequestLanguage(u) )
            => /\ (Path(u) = "/detect_rhyme" /\ Body(u).word1 = Body(t).word)
                    => /\ resp[t].ipa = resp[u].ipa1
                       /\ resp[t].stress_tail = resp[u].stress_tail1
               /\ (Path(u) = "/transliterate" /\ Body(u).word = Body(t).word)
                    => resp[t].ipa = resp[u].ipa

C10_Witness ==
    \E t, u \in Requests :
        /\ Succeeded(t) /\ Path(t) = "/stress-tail"
        /\ Succeeded(u) /\ Path(u) = "/detect_rhyme"
        /\ RequestLanguage(t) = RequestLanguage(u)
        /\ Body(u).word1 = Body(t).word
        /\ Len(resp[t].ipa) > 3

====
